---- MODULE Spec2Model ----
(***************************************************************************)
(* The bcrypt dictionary cracker of Module4/task2_bcrypt_cracker.py:       *)
(* parse_shadow_file / parse_shadow_entry, the work-factor grouping, the   *)
(* sequential orchestrator crack_by_workfactor_group and the parallel one  *)
(* crack_by_workfactor_group_parallel with crack_user_parallel and its     *)
(* pool of crack_worker_chunk tasks, save_progress, get_nltk_words, and    *)
(* main's start-up, corpus load and save_results around them.              *)
(*                                                                         *)
(* bcrypt.checkpw is opaque: it is modelled by its truth table `oracle`,   *)
(* which maps a full_hash to the set of words that verify against it, and  *)
(* by `raising`, the words on which it raises for that full_hash.          *)
(* Wall-clock fields (time, elapsed) are left out of the records.          *)
(***************************************************************************)
EXTENDS Integers, Sequences, FiniteSets, TLC

\* ------------------------------------------------------------------ bounds
MaxEntries == 2
MaxWords == 2
MaxProcs == 2
\* the single-record runs of crack_user_parallel
MaxLen == 4
MaxN == 3
\* the input of parse_shadow_file
MaxLines == 2

\* A sorted, duplicate-free pool of candidate words; a corpus is a prefix of it.
WordPool == <<"aaaaaa", "bbbbbb", "target", "thorin", "unkind", "wizard", "yonder", "zenith">>
UserIds == {"Bilbo", "Fili"}
Workfactors == {8, 9}
\* Python's None, as the password of a not-found result.
NONE == "<None>"

VARIABLES
    lines,        \* parse_shadow_file's lines
    li,           \* parse_shadow_file: the line the loop is at (1-based)
    source,       \* history: source[k] = the line entries[k] was parsed from
    entries,      \* the list parse_shadow_file builds and returns
    word_list,    \* the corpus get_nltk_words returned
    parallel,     \* main's argument: 0 = sequential, n > 0 = n processes
    oracle,       \* bcrypt.checkpw: full_hash -> the words that verify
    raising,      \* bcrypt.checkpw: full_hash -> the words on which it raises
    background,   \* main's argument background_mode
    source_ok,    \* whether nltk and its words corpus can be loaded
    nltk_words,   \* nltk.corpus.words.words(): words as character sequences
    min_length,   \* get_nltk_words's argument
    max_length,   \* get_nltk_words's argument
    pc,           \* the orchestrator's position
    keys,         \* sorted(workfactor_groups.keys()) still to iterate
    workfactor,   \* the loop variable of the group loop
    group,        \* parallel: entries of the group still to iterate
    cur,          \* parallel: `entry`, as an index into entries (0: none)
    tasks,        \* parallel: the pool's tasks, one per element of args_list
    first,        \* history: the task of the last pool.map that returned first (0: none)
    failed,       \* parallel: the tasks whose worker terminated abnormally, and how
    remaining,    \* sequential: the dict user -> entry, in insertion order
    i,            \* sequential: the word loop's index
    ri,           \* sequential: position in remaining.items()
    found_users,  \* sequential: found_users of the current word
    results,      \* the list both orchestrators return
    progress,     \* the lines of Module4/cracking_progress.txt
    csv,          \* the result lines of Module4/cracking_results.csv
    calls,        \* history: calls[e][w] = oracle calls made for entry e on word w
    dh,           \* diffie_hellman_exchange: its arguments and locals
    mitm,         \* mitm_generator_tamper: its arguments and locals
    rsa,          \* rsa_keygen, rsa_encrypt, rsa_decrypt: their arguments and locals
    birthday      \* find_collision_birthday: its argument, locals and return value

parsev == <<lines, li, source>>
corpusv == <<source_ok, nltk_words, min_length, max_length>>
demov == <<dh, mitm, rsa, birthday>>
inputs == <<parsev, entries, word_list, parallel, oracle, raising, background, corpusv, demov>>
loopv == <<keys, workfactor>>
parv == <<group, cur, tasks, first, failed>>
seqv == <<remaining, i, ri, found_users>>
outv == <<results, progress, csv>>
vars == <<inputs, pc, loopv, parv, seqv, outv, calls>>

\* ----------------------------------------------------------------- helpers
Min(a, b) == IF a < b THEN a ELSE b

Range(s) == {s[k] : k \in DOMAIN s}

\* ------------------------------------------------------------ input lines
\* A line is the sequence of its characters.
\* line 66 of the source: a valid record, cost 08
LineBilbo ==
    <<"B", "i", "l", "b", "o", ":", "$", "2", "b", "$", "0", "8", "$", "J", "9", "F",
      "W", "6", "6", "Z", "d", "P", "I", "2", "n", "r", "I", "M", "c", "O", "x", "F",
      "Y", "I", ".", "q", "x", "2", "6", "8", "u", "Z", "n", ".", "a", "j", "h", "y",
      "m", "L", "P", "/", "Y", "H", "a", "A", "s", "f", "B", "G", "P", "3", "F", "n",
      "m", "q">>
\* line 69 of the source: a valid record, cost 09
LineFili ==
    <<"F", "i", "l", "i", ":", "$", "2", "b", "$", "0", "9", "$", "M", "9", "x", "N",
      "R", "F", "B", "D", "n", "0", "p", "U", "k", "P", "K", "I", "V", "C", "S", "B",
      "z", "u", "w", "N", "D", "D", "N", "T", "M", "W", "l", "v", "n", "7", "l", "e",
      "z", "P", "r", "8", "I", "w", "V", "U", "s", "J", "b", "y", "s", "3", "Y", "Z",
      "m">>
\* no ':' separator
LineNoColon ==
    <<"b", "o", "b", "-", "n", "o", "-", "c", "o", "l", "o", "n", "-", "h", "a", "s",
      "h">>
\* two ':' separators
LineTwoColons ==
    <<"b", "o", "b", ":", "$", "2", "b", "$", "0", "8", "$", "J", "9", "F", "W", "6",
      "6", "Z", "d", "P", "I", "2", "n", "r", "I", "M", "c", "O", "x", "F", "Y", "I",
      ".", "q", "x", "2", "6", "8", "u", "Z", "n", ".", "a", "j", "h", "y", "m", "L",
      "P", "/", "Y", "H", "a", "A", "s", "f", "B", "G", "P", "3", "F", "n", "m", "q",
      ":", "1", "9", "0", "0", "0">>
\* a hash field of 3 '$'-delimited segments
LineFewSegments ==
    <<"b", "o", "b", ":", "$", "2", "b", "$", "0", "8">>
\* a cost field that is no number
LineCostText ==
    <<"b", "o", "b", ":", "$", "2", "b", "$", "x", "x", "$", "J", "9", "F", "W", "6",
      "6", "Z", "d", "P", "I", "2", "n", "r", "I", "M", "c", "O", "x", "F", "Y", "I",
      ".", "q", "x", "2", "6", "8", "u", "Z", "n", ".", "a", "j", "h", "y", "m", "L",
      "P", "/", "Y", "H", "a", "A", "s", "f", "B", "G", "P", "3", "F", "n", "m", "q">>
\* a cost field of zero
LineCostZero ==
    <<"b", "o", "b", ":", "$", "2", "b", "$", "0", "$", "J", "9", "F", "W", "6", "6",
      "Z", "d", "P", "I", "2", "n", "r", "I", "M", "c", "O", "x", "F", "Y", "I", ".",
      "q", "x", "2", "6", "8", "u", "Z", "n", ".", "a", "j", "h", "y", "m", "L", "P",
      "/", "Y", "H", "a", "A", "s", "f", "B", "G", "P", "3", "F", "n", "m", "q">>
\* a negative cost field
LineCostNegative ==
    <<"b", "o", "b", ":", "$", "2", "b", "$", "-", "1", "$", "J", "9", "F", "W", "6",
      "6", "Z", "d", "P", "I", "2", "n", "r", "I", "M", "c", "O", "x", "F", "Y", "I",
      ".", "q", "x", "2", "6", "8", "u", "Z", "n", ".", "a", "j", "h", "y", "m", "L",
      "P", "/", "Y", "H", "a", "A", "s", "f", "B", "G", "P", "3", "F", "n", "m", "q">>
\* a salt+hash field of 5 characters
LineShortSalt ==
    <<"b", "o", "b", ":", "$", "2", "b", "$", "0", "8", "$", "s", "h", "o", "r", "t">>
\* a line of white space
LineBlank ==
    <<" ", " ">>

SampleLines ==
    {LineBilbo,
     LineFili,
     LineNoColon,
     LineTwoColons,
     LineFewSegments,
     LineCostText,
     LineCostZero,
     LineCostNegative,
     LineShortSalt,
     LineBlank}

\* ------------------------------------------- Python's str and int operations
Whitespace == {" ", "\t", "\n", "\r"}

RECURSIVE LStrip(_)
LStrip(s) == IF s # <<>> /\ Head(s) \in Whitespace THEN LStrip(Tail(s)) ELSE s

RECURSIVE RStrip(_)
RStrip(s) ==
    IF s # <<>> /\ s[Len(s)] \in Whitespace THEN RStrip(SubSeq(s, 1, Len(s) - 1)) ELSE s

\* str.strip()
Strip(s) == RStrip(LStrip(s))

\* the positions of character c in s, ascending
Positions(s, c) == SelectSeq([k \in 1..Len(s) |-> k], LAMBDA k : s[k] = c)

\* str.split(sep) for a one-character sep: the pieces between the separators
Split(s, sep) ==
    LET at == Positions(s, sep)
        n == Len(at)
    IN [k \in 1..(n + 1) |->
            SubSeq(s, IF k = 1 THEN 1 ELSE at[k - 1] + 1,
                      IF k = n + 1 THEN Len(s) ELSE at[k] - 1)]

DigitValue(c) ==
    CASE c = "0" -> 0 [] c = "1" -> 1 [] c = "2" -> 2 [] c = "3" -> 3 [] c = "4" -> 4
      [] c = "5" -> 5 [] c = "6" -> 6 [] c = "7" -> 7 [] c = "8" -> 8 [] c = "9" -> 9

Digits == {"0", "1", "2", "3", "4", "5", "6", "7", "8", "9"}

\* the text of int(s) without white space and sign
IntDigits(s) ==
    LET t == Strip(s)
    IN IF t # <<>> /\ Head(t) \in {"+", "-"} THEN Tail(t) ELSE t

\* int(s) returns (it raises ValueError otherwise); digit-group underscores are
\* not in the lines' alphabet
IntParses(s) ==
    /\ IntDigits(s) # <<>>
    /\ \A k \in DOMAIN IntDigits(s) : IntDigits(s)[k] \in Digits

RECURSIVE Decimal(_)
Decimal(ds) ==
    IF ds = <<>> THEN 0 ELSE 10 * Decimal(SubSeq(ds, 1, Len(ds) - 1)) + DigitValue(ds[Len(ds)])

\* int(s) where it returns
IntValue(s) ==
    LET t == Strip(s)
    IN IF t # <<>> /\ Head(t) = "-" THEN 0 - Decimal(IntDigits(s)) ELSE Decimal(IntDigits(s))

\* s[:n] and s[n:]
Take(s, n) == SubSeq(s, 1, Min(n, Len(s)))
Drop(s, n) == SubSeq(s, Min(n, Len(s)) + 1, Len(s))

\* -------------------------------------------------------- parse_shadow_entry
SaltLen == 22

\* `if len(parts) < 2: return None` in place of the test of line 94
PartsOkAtLeast(parts) == Len(parts) >= 2

\* line 94 passes
PartsOk(parts) == Len(parts) = 2

\* parse_shadow_entry returns None for the line
ParseNone(line) ==
    \/ Strip(line) = <<>>
    \/ ~PartsOk(Split(Strip(line), ":"))
    \/ Len(Split(Split(Strip(line), ":")[2], "$")) < 4

\* parse_shadow_entry raises (int() of line 110)
ParseRaises(line) ==
    /\ ~ParseNone(line)
    /\ ~IntParses(Split(Split(Strip(line), ":")[2], "$")[3])

DigitChar(d) ==
    CASE d = 0 -> "0" [] d = 1 -> "1" [] d = 2 -> "2" [] d = 3 -> "3" [] d = 4 -> "4"
      [] d = 5 -> "5" [] d = 6 -> "6" [] d = 7 -> "7" [] d = 8 -> "8" [] d = 9 -> "9"

RECURSIVE StrNat(_)
\* str(n) for n >= 0
StrNat(n) == IF n < 10 THEN <<DigitChar(n)>> ELSE StrNat(n \div 10) \o <<DigitChar(n % 10)>>

\* str(n)
StrInt(n) == IF n < 0 THEN <<"-">> \o StrNat(0 - n) ELSE StrNat(n)

\* line 116 formatting the parsed integer: f"${algorithm}${workfactor}${salt}"
ParseEntryIntCost(line) ==
    LET parts == Split(Strip(line), ":")
        full_hash == parts[2]
        hash_parts == Split(full_hash, "$")
        salt_hash == hash_parts[4]
        salt == Take(salt_hash, SaltLen)
    IN [user |-> parts[1],
        algorithm |-> hash_parts[2],
        workfactor |-> IntValue(hash_parts[3]),
        salt |-> salt,
        bcrypt_salt |-> <<"$">> \o hash_parts[2] \o <<"$">>
                            \o StrInt(IntValue(hash_parts[3])) \o <<"$">> \o salt,
        hash |-> Drop(salt_hash, SaltLen),
        full_hash |-> full_hash]

\* the dict parse_shadow_entry returns for a line it neither rejects nor raises on
ParseEntry(line) ==
    LET parts == Split(Strip(line), ":")
        full_hash == parts[2]
        hash_parts == Split(full_hash, "$")
        salt_hash == hash_parts[4]
        salt == Take(salt_hash, SaltLen)
    IN [user |-> parts[1],
        algorithm |-> hash_parts[2],
        workfactor |-> IntValue(hash_parts[3]),
        salt |-> salt,
        bcrypt_salt |-> <<"$">> \o hash_parts[2] \o <<"$">> \o hash_parts[3] \o <<"$">> \o salt,
        hash |-> Drop(salt_hash, SaltLen),
        full_hash |-> full_hash]

RECURSIVE SortedSeq(_)
\* sorted(S) of a finite set of integers
SortedSeq(S) ==
    IF S = {} THEN <<>>
    ELSE LET m == CHOOSE x \in S : \A y \in S : x <= y
         IN <<m>> \o SortedSeq(S \ {m})

RECURSIVE InsertionKeys(_)
\* the keys of workfactor_groups in dict (first insertion) order
InsertionKeys(es) ==
    IF es = <<>> THEN <<>>
    ELSE LET front == InsertionKeys(SubSeq(es, 1, Len(es) - 1))
             wf == es[Len(es)].workfactor
         IN IF wf \in Range(front) THEN front ELSE Append(front, wf)

\* the group loop without sorted(): the keys in dict order
GroupKeysUnsorted(es) == InsertionKeys(es)

\* for workfactor in sorted(workfactor_groups.keys())
GroupKeys(es) == SortedSeq(Range(InsertionKeys(es)))

\* one group holding every entry, whatever its work factor
GroupOfAll(es, wf) == [k \in 1..Len(es) |-> k]

\* workfactor_groups[wf] with the entries in reverse input order
GroupOfReversed(es, wf) ==
    LET g == SelectSeq([k \in 1..Len(es) |-> k], LAMBDA k : es[k].workfactor = wf)
    IN [k \in 1..Len(g) |-> g[Len(g) + 1 - k]]

\* workfactor_groups[wf]: the indices of the entries of that work factor, in input order
GroupOf(es, wf) ==
    SelectSeq([k \in 1..Len(es) |-> k], LAMBDA k : es[k].workfactor = wf)

\* bcrypt.checkpw raises on this word and reference
Raises(word, full_hash) == word \in raising[full_hash]

\* the except clause answering True: an exception counts as a match
VerifyOrRaises(word, full_hash) ==
    Raises(word, full_hash) \/ word \in oracle[full_hash]

\* check_password_checkpw, and the try/except around bcrypt.checkpw in
\* crack_worker_chunk: an exception counts as no match
Verify(word, full_hash) ==
    IF Raises(word, full_hash) THEN FALSE ELSE word \in oracle[full_hash]

\* ------------------------------------------------------- crack_user_parallel
\* chunk_size rounded up
ChunkSizeCeil(L, N) == (L + N - 1) \div N

\* lines 243-245: chunk_size = len(word_list) // num_processes, at least 1
ChunkSize(L, N) == IF L \div N = 0 THEN 1 ELSE L \div N

RECURSIVE ArgsFromEven(_, _, _)
\* the chunk loop with every chunk of chunk_size words, the last one too
ArgsFromEven(wl, N, k) ==
    IF k >= N THEN <<>>
    ELSE LET cs == ChunkSize(Len(wl), N)
             start == k * cs
             rest == ArgsFromEven(wl, N, k + 1)
         IN IF start < Len(wl)
            THEN <<[chunk |-> SubSeq(wl, start + 1, Min(start + cs, Len(wl))),
                    start_index |-> start]>> \o rest
            ELSE rest

RECURSIVE ArgsFromOverlap(_, _, _)
\* the chunk loop with every chunk but the last running one word too far
ArgsFromOverlap(wl, N, k) ==
    IF k >= N THEN <<>>
    ELSE LET cs == ChunkSize(Len(wl), N)
             start == k * cs
             end == IF k < N - 1 THEN start + cs + 1 ELSE Len(wl)
             rest == ArgsFromOverlap(wl, N, k + 1)
         IN IF start < Len(wl)
            THEN <<[chunk |-> SubSeq(wl, start + 1, Min(end, Len(wl))),
                    start_index |-> start]>> \o rest
            ELSE rest

RECURSIVE ArgsFrom(_, _, _)
\* the loop `for i in range(num_processes)` from index k on
ArgsFrom(wl, N, k) ==
    IF k >= N THEN <<>>
    ELSE LET cs == ChunkSize(Len(wl), N)
             start == k * cs
             end == IF k < N - 1 THEN start + cs ELSE Len(wl)
             rest == ArgsFrom(wl, N, k + 1)
         IN IF start < Len(wl)
            THEN <<[chunk |-> SubSeq(wl, start + 1, Min(end, Len(wl))),
                    start_index |-> start]>> \o rest
            ELSE rest

ArgsList(wl, N) == ArgsFrom(wl, N, 0)

\* a task of pool.map: its args, the worker's loop index, its return value
\* (<<>> is None, <<word, index>> a match) and whether it has returned
NewTask(args) == [chunk |-> args.chunk, start_index |-> args.start_index,
                  i |-> 0, result |-> <<>>, done |-> FALSE]

\* the worker returning the start of its chunk as the index of the match
WorkerHitChunkStart(t, k) == <<t.chunk[k + 1], t.start_index>>

\* the worker returning the index inside its chunk
WorkerHitLocal(t, k) == <<t.chunk[k + 1], k>>

\* crack_worker_chunk's return on a match at local index k
WorkerHit(t, k) == <<t.chunk[k + 1], t.start_index + k>>

RECURSIVE LastResult(_)
\* the result of the last task that matched
LastResult(ts) ==
    IF ts = <<>> THEN <<>>
    ELSE IF ts[Len(ts)].result # <<>> THEN ts[Len(ts)].result
    ELSE LastResult(SubSeq(ts, 1, Len(ts) - 1))

\* only the first task's result is looked at
HeadResult(ts) == IF ts = <<>> THEN <<>> ELSE Head(ts).result

RECURSIVE FirstResult(_)
\* `for result in results: if result is not None: return ...`
FirstResult(ts) ==
    IF ts = <<>> THEN <<>>
    ELSE IF Head(ts).result # <<>> THEN Head(ts).result
    ELSE FirstResult(Tail(ts))

\* ---------------------------------------------------------- result records
\* results.append with the 0-based index of the matching word as attempts
FoundZeroBased(e, password, attempts, wf) ==
    [user |-> entries[e].user, password |-> password, attempts |-> attempts - 1,
     workfactor |-> wf, entry |-> e]

\* The dicts appended to results. `entry` is history: the index of the entry
\* whose full_hash the result was computed from.
Found(e, password, attempts, wf) ==
    [user |-> entries[e].user, password |-> password, attempts |-> attempts,
     workfactor |-> wf, entry |-> e]

NotFound(e, wf) ==
    [user |-> entries[e].user, password |-> NONE, attempts |-> Len(word_list),
     workfactor |-> wf, entry |-> e]

\* save_progress mistaking the 0-based loop index for the attempts
ProgressLineZeroBased(r) ==
    [user |-> r.user, password |-> r.password, attempts |-> r.attempts - 1,
     workfactor |-> r.workfactor]

\* the line save_progress appends
ProgressLine(r) ==
    [user |-> r.user, password |-> r.password, attempts |-> r.attempts,
     workfactor |-> r.workfactor]

Called(e, w) == [calls EXCEPT ![e][w] = @ + 1]

\* ------------------------------------------------ crack_by_workfactor_group
RECURSIVE RemainingDict(_, _)
\* remaining = {e['user']: e for e in group}: a key keeps the place of its
\* first insertion and the value of its last
RemainingDict(es, g) ==
    IF g = <<>> THEN <<>>
    ELSE LET front == RemainingDict(es, SubSeq(g, 1, Len(g) - 1))
             e == g[Len(g)]
             u == es[e].user
         IN IF \E k \in DOMAIN front : front[k].user = u
            THEN [k \in DOMAIN front |->
                    IF front[k].user = u THEN [user |-> u, entry |-> e] ELSE front[k]]
            ELSE Append(front, [user |-> u, entry |-> e])

\* the head of `for i, word in enumerate(word_list)` with `if not remaining: break`:
\* where the loop goes with index idx and dict rem
WordLoop(rem, idx) ==
    IF idx >= Len(word_list) \/ rem = <<>> THEN "seq_notfound" ELSE "seq_check"

SeqStart ==
    /\ pc = "start"
    /\ parallel = 0
    /\ keys' = GroupKeys(entries)
    /\ pc' = "seq_group"
    /\ UNCHANGED <<inputs, workfactor, parv, seqv, outv, calls>>

\* the head of `for workfactor in sorted(...)` and lines 348-356
SeqNextGroup ==
    /\ pc = "seq_group"
    /\ IF keys = <<>>
       THEN /\ pc' = "done"
            /\ UNCHANGED <<loopv, seqv>>
       ELSE /\ workfactor' = Head(keys)
            /\ keys' = Tail(keys)
            /\ remaining' = RemainingDict(entries, GroupOf(entries, Head(keys)))
            /\ i' = 0
            /\ ri' = 1
            /\ found_users' = {}
            /\ pc' = WordLoop(remaining', 0)
    /\ UNCHANGED <<inputs, parv, outv, calls>>

\* one turn of `for user, entry in remaining.items()`, or, at its end,
\* `for user in found_users: del remaining[user]`
SeqCheck ==
    /\ pc = "seq_check"
    /\ IF ri > Len(remaining)
       THEN /\ remaining' = SelectSeq(remaining, LAMBDA r : r.user \notin found_users)
            /\ i' = i + 1
            /\ ri' = 1
            /\ found_users' = {}
            /\ pc' = WordLoop(remaining', i + 1)
            /\ UNCHANGED <<outv, calls>>
       ELSE LET e == remaining[ri].entry
                word == word_list[i + 1]
            IN /\ calls' = Called(e, word)
               /\ IF Verify(word, entries[e].full_hash)
                  THEN /\ results' = Append(results, Found(e, word, i + 1, workfactor))
                       /\ pc' = "seq_save"
                       /\ UNCHANGED ri
                  ELSE /\ ri' = ri + 1
                       /\ UNCHANGED <<results, pc>>
               /\ UNCHANGED <<remaining, i, found_users, progress, csv>>
    /\ UNCHANGED <<inputs, loopv, parv>>

\* found_users.append(user) without the save_progress before it
SeqSaveSkipped ==
    /\ pc = "seq_save"
    /\ found_users' = found_users \cup {remaining[ri].user}
    /\ ri' = ri + 1
    /\ pc' = "seq_check"
    /\ UNCHANGED <<inputs, loopv, parv, remaining, i, outv, calls>>

\* lines 383-384: save_progress for the result just appended, then
\* found_users.append(user)
SeqSave ==
    /\ pc = "seq_save"
    /\ progress' = Append(progress, ProgressLine(results[Len(results)]))
    /\ found_users' = found_users \cup {remaining[ri].user}
    /\ ri' = ri + 1
    /\ pc' = "seq_check"
    /\ UNCHANGED <<inputs, loopv, parv, remaining, i, results, csv, calls>>

\* one turn of `for user, entry in remaining.items()` of lines 391-400
SeqNotFound ==
    /\ pc = "seq_notfound"
    /\ IF remaining = <<>>
       THEN /\ pc' = "seq_group"
            /\ UNCHANGED <<remaining, results>>
       ELSE /\ results' = Append(results, NotFound(Head(remaining).entry, workfactor))
            /\ remaining' = Tail(remaining)
            /\ UNCHANGED pc
    /\ UNCHANGED <<inputs, loopv, parv, i, ri, found_users, progress, csv, calls>>

\* --------------------------------------- crack_by_workfactor_group_parallel
ParStart ==
    /\ pc = "start"
    /\ parallel > 0
    /\ keys' = GroupKeys(entries)
    /\ pc' = "par_group"
    /\ UNCHANGED <<inputs, workfactor, parv, seqv, outv, calls>>

ParNextGroup ==
    /\ pc = "par_group"
    /\ IF keys = <<>>
       THEN /\ pc' = "done"
            /\ UNCHANGED <<loopv, group>>
       ELSE /\ workfactor' = Head(keys)
            /\ keys' = Tail(keys)
            /\ group' = GroupOf(entries, Head(keys))
            /\ pc' = "par_entry"
    /\ UNCHANGED <<inputs, cur, tasks, first, failed, seqv, outv, calls>>

\* `for entry in group` up to pool.map's dispatch in crack_user_parallel
ParEntry ==
    /\ pc = "par_entry"
    /\ IF group = <<>>
       THEN /\ pc' = "par_group"
            /\ first' = 0
            /\ UNCHANGED <<group, cur, tasks>>
       ELSE /\ cur' = Head(group)
            /\ group' = Tail(group)
            /\ first' = 0
            /\ tasks' = [k \in DOMAIN ArgsList(word_list, parallel) |->
                            NewTask(ArgsList(word_list, parallel)[k])]
            /\ pc' = "par_map"
    /\ UNCHANGED <<inputs, loopv, failed, seqv, outv, calls>>

\* the tasks whose worker terminated abnormally
FailedTasks == {f.task : f \in failed}

\* one turn of crack_worker_chunk's loop in the worker that runs task k
WorkerStep(k) ==
    /\ pc = "par_map"
    /\ ~tasks[k].done
    /\ k \notin FailedTasks
    /\ LET t == tasks[k]
       IN IF t.i >= Len(t.chunk)
          THEN /\ tasks' = [tasks EXCEPT ![k].done = TRUE]
               /\ UNCHANGED calls
               /\ first' = IF first = 0 THEN k ELSE first
          ELSE LET word == t.chunk[t.i + 1]
               IN /\ calls' = Called(cur, word)
                  /\ tasks' = [tasks EXCEPT ![k] =
                        IF Verify(word, entries[cur].full_hash)
                        THEN [t EXCEPT !.result = WorkerHit(t, t.i), !.done = TRUE]
                        ELSE [t EXCEPT !.i = t.i + 1,
                                       !.done = (t.i + 1 >= Len(t.chunk))]]
                  /\ first' = IF tasks'[k].done /\ first = 0 THEN k ELSE first
    /\ UNCHANGED <<inputs, pc, loopv, group, cur, failed, seqv, outv>>

\* The worker of task k terminates abnormally before its task has returned:
\* its process is killed, or crack_worker_chunk raises outside its try block.
WorkerFail(k, how) ==
    /\ pc = "par_map"
    /\ ~tasks[k].done
    /\ k \notin FailedTasks
    /\ failed' = failed \cup {[task |-> k, how |-> how]}
    /\ UNCHANGED <<inputs, pc, loopv, group, cur, tasks, first, seqv, outv, calls>>

\* pool.map returns without waiting for the tasks of failed workers
AllReturnedOrFailed(ts) == \A k \in DOMAIN ts : ts[k].done \/ k \in FailedTasks

\* pool.map returning as soon as one task has returned
SomeReturned(ts) == ts = <<>> \/ \E k \in DOMAIN ts : ts[k].done

\* pool.map returns its list once every task has returned
AllReturned(ts) == \A k \in DOMAIN ts : ts[k].done

\* pool.map has returned: lines 259-266 and 305-313, 317-326
ParCollect ==
    /\ pc = "par_map"
    /\ AllReturned(tasks)
    /\ LET result == FirstResult(tasks)
       IN IF result # <<>>
          THEN /\ results' = Append(results, Found(cur, result[1], result[2] + 1, workfactor))
               /\ pc' = "par_save"
          ELSE /\ results' = Append(results, NotFound(cur, workfactor))
               /\ pc' = "par_entry"
    /\ tasks' = <<>>
    /\ UNCHANGED <<inputs, loopv, group, cur, first, failed, seqv, progress, csv, calls>>

\* save_progress opening the progress file with 'w'
ParSaveTruncating ==
    /\ pc = "par_save"
    /\ progress' = <<ProgressLine(results[Len(results)])>>
    /\ pc' = "par_entry"
    /\ UNCHANGED <<inputs, loopv, parv, seqv, results, csv, calls>>

\* line 316: save_progress for the result just appended
ParSave ==
    /\ pc = "par_save"
    /\ progress' = Append(progress, ProgressLine(results[Len(results)]))
    /\ pc' = "par_entry"
    /\ UNCHANGED <<inputs, loopv, parv, seqv, results, csv, calls>>

\* pool.map re-raises a worker's exception once the other tasks have returned:
\* it leaves crack_user_parallel, the orchestrator and main. With a killed
\* worker the task's result never arrives and pool.map does not return.
MapRaises ==
    /\ pc = "par_map"
    /\ failed # {}
    /\ \A f \in failed : f.how = "raised"
    /\ \A k \in DOMAIN tasks : tasks[k].done \/ k \in FailedTasks
    /\ pc' = "crashed"
    /\ UNCHANGED <<inputs, loopv, parv, seqv, outv, calls>>

\* --------------------------------------------------------- parse_shadow_file
\* one turn of `for line in lines`; a ValueError leaves parse_shadow_file and main
ParseLine ==
    /\ pc = "parse"
    /\ li <= Len(lines)
    /\ IF ParseRaises(lines[li])
       THEN /\ pc' = "crashed"
            /\ UNCHANGED <<li, entries, source>>
       ELSE /\ li' = li + 1
            /\ pc' = "parse"
            /\ IF ParseNone(lines[li])
               THEN UNCHANGED <<entries, source>>
               ELSE /\ entries' = Append(entries, ParseEntry(lines[li]))
                    /\ source' = Append(source, li)
    /\ UNCHANGED <<lines, word_list, parallel, oracle, raising, background, corpusv, demov,
                   loopv, parv, seqv, outv, calls>>

\* `return entries`, and main goes on to the orchestrator with them
ParseReturn ==
    /\ pc = "parse"
    /\ li > Len(lines)
    /\ pc' = "start"
    /\ calls' = [e \in DOMAIN entries |-> [w \in Range(word_list) |-> 0]]
    /\ UNCHANGED <<inputs, loopv, parv, seqv, outv>>

\* ---------------------------------------------------------------------- main
\* the header line main writes to the progress file in background mode
HeaderLine ==
    [user |-> "=== Password Cracking Started ===", password |-> NONE,
     attempts |-> 0, workfactor |-> 0]

\* a line that save_progress of an earlier run left in the progress file
EarlierLine ==
    [user |-> "Thorin", password |-> "zenith", attempts |-> 8, workfactor |-> 8]

\* lines 470-478: in background mode the progress file is opened with 'w' and
\* holds the header alone; in foreground mode main does not touch it
MainStartup ==
    /\ pc = "main"
    /\ progress' = IF background THEN <<HeaderLine>> ELSE progress
    /\ pc' = "load"
    /\ UNCHANGED <<inputs, loopv, parv, seqv, results, csv, calls>>

\* get_nltk_words answering with an empty corpus instead of raising
LoadWordsAnyway ==
    /\ pc = "load"
    /\ pc' = "start"
    /\ UNCHANGED <<inputs, loopv, parv, seqv, outv, calls>>

\* line 505: word_list = get_nltk_words(...); its ImportError or LookupError
\* is not caught and leaves main. The test vector and parse_shadow_file come
\* before it in main; the entries parsed are given from the start.
LoadWords ==
    /\ pc = "load"
    /\ pc' = IF source_ok THEN "start" ELSE "crashed"
    /\ UNCHANGED <<inputs, loopv, parv, seqv, outv, calls>>

\* a line of save_results
CsvLine(r) ==
    [user |-> r.user,
     password |-> IF r.password = NONE THEN "NOT_FOUND" ELSE r.password,
     attempts |-> r.attempts, workfactor |-> r.workfactor]

\* line 551: save_results(results, total_time) once the orchestrator returned
SaveResults ==
    /\ pc = "done"
    /\ csv' = [k \in DOMAIN results |-> CsvLine(results[k])]
    /\ pc' = "saved"
    /\ UNCHANGED <<inputs, loopv, parv, seqv, results, progress, calls>>

\* the operator's interrupt: the process stops wherever it is
Interrupt ==
    /\ pc \notin {"saved", "crashed", "interrupted"}
    /\ pc' = "interrupted"
    /\ UNCHANGED <<inputs, loopv, parv, seqv, outv, calls>>

\* ------------------------------------------------------------ specification
Corpus(L) == SubSeq(WordPool, 1, L)

EntryRecords(wl) ==
    [user : UserIds, workfactor : Workfactors, full_hash : SUBSET Range(wl)]

\* Lists of at most n records. User ids matter only up to renaming, so the
\* first record is taken to be Bilbo's.
EntryLists(wl, n) ==
    {es \in UNION {[1..m -> EntryRecords(wl)] : m \in 0..n} :
        es # <<>> => es[1].user = "Bilbo"}

\* the course's other scripts are separate programs: none of them has run
NoDemo ==
    /\ dh = <<>>
    /\ mitm = <<>>
    /\ rsa = <<>>
    /\ birthday = <<>>

\* the cracker's loops, pool and output at rest
AtRest ==
    /\ keys = <<>>
    /\ workfactor = 0
    /\ group = <<>>
    /\ cur = 0
    /\ tasks = <<>>
    /\ first = 0
    /\ remaining = <<>>
    /\ i = 0
    /\ ri = 1
    /\ found_users = {}
    /\ failed = {}
    /\ results = <<>>
    /\ csv = <<>>

Idle ==
    /\ NoDemo
    /\ AtRest

\* a run of the orchestrators alone: an empty progress file, an oracle that
\* never raises; main's arguments and the word source play no part
Plain ==
    /\ progress = <<>>
    /\ raising = [h \in DOMAIN oracle |-> {}]
    /\ background = FALSE
    /\ source_ok = TRUE
    /\ nltk_words = <<>>
    /\ min_length = 6
    /\ max_length = 10

\* the state when main calls the orchestrator with parsed entries
Handed ==
    /\ lines = <<>>
    /\ li = 1
    /\ source = <<>>
    /\ pc = "start"
    /\ calls = [e \in DOMAIN entries |-> [w \in Range(word_list) |-> 0]]

Init ==
    /\ \E L \in 0..Min(MaxWords, Len(WordPool)) : word_list = Corpus(L)
    /\ entries \in EntryLists(word_list, MaxEntries)
    /\ parallel \in 0..MaxProcs
    /\ oracle = [h \in SUBSET Range(word_list) |-> h]
    /\ Idle
    /\ Plain
    /\ Handed

Next ==
    \/ SeqStart
    \/ SeqNextGroup
    \/ SeqCheck
    \/ SeqSave
    \/ SeqNotFound
    \/ ParStart
    \/ ParNextGroup
    \/ ParEntry
    \/ \E k \in DOMAIN tasks : WorkerStep(k)
    \/ ParCollect
    \/ ParSave

Spec == Init /\ [][Next]_vars

\* The coordinator and the pool's workers are running processes: a step that
\* stays possible is eventually taken.
SpecFair == Init /\ [][Next]_vars /\ WF_vars(Next)

\* one record, a longer corpus, more processes
InitUser ==
    /\ \E L \in 0..Min(MaxLen, Len(WordPool)) : word_list = Corpus(L)
    /\ entries \in [1..1 -> EntryRecords(word_list)]
    /\ parallel \in 0..MaxN
    /\ oracle = [h \in SUBSET Range(word_list) |-> h]
    /\ Idle
    /\ Plain
    /\ Handed

SpecUser == InitUser /\ [][Next]_vars

\* the hash fields of the lines: what checkpw may be asked about
HashFields(ls) ==
    {Split(Strip(ls[k]), ":")[2] : k \in {j \in DOMAIN ls : Len(Split(Strip(ls[j]), ":")) >= 2}}

\* main from parse_shadow_file on, over lists of sample lines and a one-word corpus
InitParse ==
    /\ lines \in UNION {[1..m -> SampleLines] : m \in 0..MaxLines}
    /\ li = 1
    /\ source = <<>>
    /\ entries = <<>>
    /\ word_list = Corpus(1)
    /\ parallel \in 0..1
    /\ oracle \in [HashFields(lines) -> SUBSET Range(word_list)]
    /\ pc = "parse"
    /\ calls = <<>>
    /\ Idle
    /\ Plain

NextParse ==
    \/ ParseLine
    \/ ParseReturn
    \/ Next

SpecParse == InitParse /\ [][NextParse]_vars

\* ---------------------------------------------------------- a run of main
RunEntries == 2
RunWords == 1
RunProcs == 1

\* main from its first line to save_results, with the operator's interrupt;
\* parse_shadow_file's result and the corpus the word source holds are given
InitLedger ==
    /\ \E L \in 0..Min(RunWords, Len(WordPool)) : word_list = Corpus(L)
    /\ entries \in EntryLists(word_list, RunEntries)
    /\ parallel \in 0..RunProcs
    /\ oracle = [h \in SUBSET Range(word_list) |-> h]
    /\ raising = [h \in DOMAIN oracle |-> {}]
    /\ background \in BOOLEAN
    /\ source_ok \in BOOLEAN
    /\ nltk_words = <<>>
    /\ min_length = 6
    /\ max_length = 10
    /\ progress \in {<<>>, <<EarlierLine>>}
    /\ Idle
    /\ lines = <<>>
    /\ li = 1
    /\ source = <<>>
    /\ pc = "main"
    /\ calls = [e \in DOMAIN entries |-> [w \in Range(word_list) |-> 0]]

NextLedger ==
    \/ MainStartup
    \/ LoadWords
    \/ Next
    \/ SaveResults
    \/ Interrupt

SpecLedger == InitLedger /\ [][NextLedger]_vars

\* ------------------------------------- crack_user_parallel with failing workers
CrashLen == 3
CrashN == 2

\* one record cracked by the parallel orchestrator, whose workers may terminate
\* abnormally at any point of their scan
InitCrash ==
    /\ \E L \in 0..Min(CrashLen, Len(WordPool)) : word_list = Corpus(L)
    /\ entries \in {es \in EntryLists(word_list, 1) : es # <<>>}
    /\ parallel \in 1..CrashN
    /\ oracle = [h \in SUBSET Range(word_list) |-> h]
    /\ Idle
    /\ Plain
    /\ Handed

NextCrash ==
    \/ ParStart
    \/ ParNextGroup
    \/ ParEntry
    \/ \E k \in DOMAIN tasks : WorkerStep(k)
    \/ \E k \in DOMAIN tasks : \E how \in {"killed", "raised"} : WorkerFail(k, how)
    \/ ParCollect
    \/ ParSave
    \/ MapRaises

SpecCrash == InitCrash /\ [][NextCrash]_vars

\* ------------------------------------------------- an oracle that may raise
RaiseEntries == 2
RaiseWords == 2
RaiseProcs == 1

\* A reference, by what bcrypt.checkpw does on each corpus word: it returns
\* True on the word of m (at most one), raises on the words of r, returns
\* False otherwise.
References(wl) ==
    {[m |-> p[1], r |-> p[2]] : p \in
        {q \in (SUBSET Range(wl)) \X (SUBSET Range(wl)) :
            q[1] \cap q[2] = {} /\ Cardinality(q[1]) <= 1}}

\* the user ids of the records, by position
UserNames == <<"Bilbo", "Fili", "Kili", "Oin">>

\* Lists of n records with distinct user ids, either all of cost 8 or of costs
\* 9, 8, 9, ...
RaiseLists(wl, n) ==
    {es \in [1..n -> [user : Range(UserNames), workfactor : Workfactors,
                      full_hash : References(wl)]] :
        /\ \A k \in 1..n : es[k].user = UserNames[k]
        /\ \E same \in BOOLEAN : \A k \in 1..n :
              es[k].workfactor = IF same \/ k % 2 = 0 THEN 8 ELSE 9}

\* both orchestrators over records on whose reference checkpw may raise
InitRaise ==
    /\ \E L \in 0..Min(RaiseWords, Len(WordPool)) : word_list = Corpus(L)
    /\ \E n \in 0..Min(RaiseEntries, Len(UserNames)) : entries \in RaiseLists(word_list, n)
    /\ parallel \in 0..RaiseProcs
    /\ oracle = [h \in {entries[k].full_hash : k \in DOMAIN entries} |-> h.m]
    /\ raising = [h \in DOMAIN oracle |-> h.r]
    /\ background = FALSE
    /\ source_ok = TRUE
    /\ nltk_words = <<>>
    /\ min_length = 6
    /\ max_length = 10
    /\ progress = <<>>
    /\ Idle
    /\ Handed

SpecRaise == InitRaise /\ [][Next]_vars

\* ------------------------------------------------------------ get_nltk_words
\* A word is the sequence of its characters, over a small alphabet.
Alphabet == {"A", "a", "b"}

\* ord(c)
CodePoint(c) == CASE c = "A" -> 65 [] c = "a" -> 97 [] c = "b" -> 98

\* str.lower, per character and per word
LowerChar(c) == IF c = "A" THEN "a" ELSE c

Lower(w) == [k \in DOMAIN w |-> LowerChar(w[k])]

\* s < t on Python strings: by code point at the first difference, a proper
\* prefix before the longer string
LexLess(s, t) ==
    \E k \in 1..(Len(t)) :
        /\ \A j \in 1..(k - 1) : j <= Len(s) /\ s[j] = t[j]
        /\ \/ k > Len(s)
           \/ k <= Len(s) /\ CodePoint(s[k]) < CodePoint(t[k])

\* the list comprehension of lines 148-151: the length test is on the word as
\* it is in the source, the result is lower-cased
Filtered(ws, lo, hi) ==
    LET kept == SelectSeq(ws, LAMBDA w : lo <= Len(w) /\ Len(w) <= hi)
    IN [k \in DOMAIN kept |-> Lower(kept[k])]

\* list(set(...)): the elements once each, in any order
ListsOf(S) ==
    {s \in [1..Cardinality(S) -> S] : \A j, k \in DOMAIN s : j # k => s[j] # s[k]}

RECURSIVE Sorted(_)
\* sorted(): insertion of the last element into the sorted rest
Sorted(s) ==
    IF s = <<>> THEN <<>>
    ELSE LET rest == Sorted(SubSeq(s, 1, Len(s) - 1))
             x == s[Len(s)]
             before == SelectSeq(rest, LAMBDA y : ~LexLess(x, y))
             after == SelectSeq(rest, LAMBDA y : LexLess(x, y))
         IN before \o <<x>> \o after

\* line 154 without sorted(): the set's own order
Unsorted(s) == s

\* line 154: sorted(list(set(filtered_words))), given the list the set yields
SortedList(s) == Sorted(s)

\* get_nltk_words, called for the first time or again, on a word source that
\* loads; the order in which the set yields its elements is not determined
GetNltkWords ==
    /\ pc \in {"load", "loaded"}
    /\ source_ok
    /\ \E order \in ListsOf(Range(Filtered(nltk_words, min_length, max_length))) :
          word_list' = SortedList(order)
    /\ pc' = "loaded"
    /\ UNCHANGED <<parsev, entries, parallel, oracle, raising, background, corpusv, demov,
                   loopv, parv, seqv, outv, calls>>

SourceLen == 2
FilterLen == 2

\* the words a source may hold: every word of at most two characters
Vocabulary == UNION {[1..m -> Alphabet] : m \in 0..2}

\* get_nltk_words on every word source of at most SourceLen words and every
\* filter with bounds up to FilterLen
InitCorpus ==
    /\ nltk_words \in UNION {[1..m -> Vocabulary] : m \in 0..SourceLen}
    /\ min_length \in 0..FilterLen
    /\ max_length \in 0..FilterLen
    /\ source_ok = TRUE
    /\ word_list = <<>>
    /\ entries = <<>>
    /\ parallel = 0
    /\ oracle = <<>>
    /\ raising = <<>>
    /\ background = FALSE
    /\ progress = <<>>
    /\ Idle
    /\ lines = <<>>
    /\ li = 1
    /\ source = <<>>
    /\ calls = <<>>
    /\ pc = "load"

NextCorpus == GetNltkWords

SpecCorpus == InitCorpus /\ [][NextCorpus]_vars

\* ------------------------------------------------- the course's other scripts
\* Module 3 and Module 4 scripts are programs of their own: while one of them
\* runs, the cracker has no entries, no corpus and nothing in progress.
NoCracker ==
    /\ AtRest
    /\ lines = <<>>
    /\ li = 1
    /\ source = <<>>
    /\ entries = <<>>
    /\ word_list = <<>>
    /\ parallel = 0
    /\ oracle = <<>>
    /\ Plain
    /\ calls = <<>>

crackerv == <<parsev, entries, word_list, parallel, oracle, raising, background,
              corpusv, loopv, parv, seqv, outv, calls>>

\* the largest modulus q the exchanges are run with
MaxQ == 7

\* pow(b, x, m) for x >= 0
RECURSIVE ModExp(_, _, _)
ModExp(b, x, m) == IF x = 0 THEN 1 % m ELSE (b * ModExp(b, x - 1, m)) % m

\* secrets.randbelow(n): an integer of [0, n); ValueError unless n > 0
RandBelow(n) == 0..(n - 1)

\* secrets.randbelow(q - 2) + 2
PrivateKeys(q) == {r + 2 : r \in RandBelow(q - 2)}

\* the exchange with Bob raising his own public value, not Alice's
DiffieHellmanExchangeOwnValue ==
    /\ pc = "dh"
    /\ dh.q - 2 > 0
    /\ \E X_A \in PrivateKeys(dh.q), X_B \in PrivateKeys(dh.q) :
          LET Y_A == ModExp(dh.a, X_A, dh.q)
              Y_B == ModExp(dh.a, X_B, dh.q)
              s_alice == ModExp(Y_B, X_A, dh.q)
              s_bob == ModExp(Y_B, X_B, dh.q)
          IN  /\ dh' = [q |-> dh.q, a |-> dh.a, X_A |-> X_A, X_B |-> X_B,
                        Y_A |-> Y_A, Y_B |-> Y_B,
                        s_alice |-> s_alice, s_bob |-> s_bob,
                        raised |-> IF s_alice = s_bob THEN NONE
                                   ELSE "AssertionError"]
              /\ pc' = IF s_alice = s_bob THEN "dh_done" ELSE "crashed"
    /\ UNCHANGED <<crackerv, mitm, rsa, birthday>>

\* diffie_hellman_exchange, up to its assertion on the shared secrets; what
\* follows (key derivation, the AES round trip) reads s_alice and s_bob only.
DiffieHellmanExchange ==
    /\ pc = "dh"
    /\ IF dh.q - 2 <= 0
       THEN /\ dh' = [dh EXCEPT !.raised = "ValueError"]
            /\ pc' = "crashed"
       ELSE \E X_A \in PrivateKeys(dh.q), X_B \in PrivateKeys(dh.q) :
               LET Y_A == ModExp(dh.a, X_A, dh.q)
                   Y_B == ModExp(dh.a, X_B, dh.q)
                   s_alice == ModExp(Y_B, X_A, dh.q)
                   s_bob == ModExp(Y_A, X_B, dh.q)
               IN  /\ dh' = [q |-> dh.q, a |-> dh.a, X_A |-> X_A, X_B |-> X_B,
                             Y_A |-> Y_A, Y_B |-> Y_B,
                             s_alice |-> s_alice, s_bob |-> s_bob,
                             raised |-> IF s_alice = s_bob THEN NONE
                                        ELSE "AssertionError"]
                   /\ pc' = IF s_alice = s_bob THEN "dh_done" ELSE "crashed"
    /\ UNCHANGED <<crackerv, mitm, rsa, birthday>>

\* a call diffie_hellman_exchange(q, a) with any modulus and generator
InitDH ==
    /\ NoCracker
    /\ \E q \in 2..MaxQ, a \in 0..MaxQ :
          dh = [q |-> q, a |-> a, X_A |-> 0, X_B |-> 0, Y_A |-> 0, Y_B |-> 0,
                s_alice |-> 0, s_bob |-> 0, raised |-> NONE]
    /\ mitm = <<>>
    /\ rsa = <<>>
    /\ birthday = <<>>
    /\ pc = "dh"

NextDH == DiffieHellmanExchange

SpecDH == InitDH /\ [][NextDH]_vars

\* Mallory's candidate list with q-1 answered by 1 alone
CandidatesOneOnly(a_tampered, q) ==
    IF a_tampered = 1 THEN <<1>>
    ELSE IF a_tampered = q THEN <<0>>
    ELSE IF a_tampered = q - 1 THEN <<1>>
    ELSE <<>>

\* mitm_generator_tamper: the candidate shared secrets Mallory derives from
\* the tampered generator
Candidates(a_tampered, q) ==
    IF a_tampered = 1 THEN <<1>>
    ELSE IF a_tampered = q THEN <<0>>
    ELSE IF a_tampered = q - 1 THEN <<1, q - 1>>
    ELSE <<>>

\* Mallory's loop over the candidates: whether both messages end up
\* recovered. The right guess decrypts both and breaks. A wrong guess gives a
\* wrong key, under which unpad or decode raise (next candidate) or, when the
\* garbage happens to unpad and decode, the loop breaks with wrong messages:
\* which of the two depends on AES and SHA-256 values.
RECURSIVE Guesses(_, _)
Guesses(candidates, s) ==
    IF candidates = <<>> THEN {FALSE}
    ELSE IF Head(candidates) = s THEN {TRUE}
    ELSE {FALSE} \cup Guesses(Tail(candidates), s)

\* mitm_generator_tamper
MitmGeneratorTamper ==
    /\ pc = "mitm"
    /\ IF mitm.q - 2 <= 0
       THEN /\ mitm' = [mitm EXCEPT !.raised = "ValueError"]
            /\ pc' = "crashed"
       ELSE \E X_A \in PrivateKeys(mitm.q), X_B \in PrivateKeys(mitm.q) :
               LET a == mitm.a_tampered
                   Y_A == ModExp(a, X_A, mitm.q)
                   Y_B == ModExp(a, X_B, mitm.q)
                   s_alice == ModExp(Y_B, X_A, mitm.q)
                   s_bob == ModExp(Y_A, X_B, mitm.q)
                   candidates == Candidates(mitm.a_tampered, mitm.q)
               IN  IF s_alice # s_bob
                   THEN /\ mitm' = [mitm EXCEPT !.X_A = X_A, !.X_B = X_B,
                                       !.Y_A = Y_A, !.Y_B = Y_B,
                                       !.s_alice = s_alice, !.s_bob = s_bob,
                                       !.raised = "AssertionError"]
                        /\ pc' = "crashed"
                   ELSE \E recovered \in Guesses(candidates, s_alice) :
                           /\ mitm' = [mitm EXCEPT !.X_A = X_A, !.X_B = X_B,
                                          !.Y_A = Y_A, !.Y_B = Y_B,
                                          !.s_alice = s_alice, !.s_bob = s_bob,
                                          !.candidates = candidates,
                                          !.recovered = recovered,
                                          !.raised = IF recovered THEN NONE
                                                     ELSE "AssertionError"]
                           /\ pc' = IF recovered THEN "mitm_done" ELSE "crashed"
    /\ UNCHANGED <<crackerv, dh, rsa, birthday>>

\* a call mitm_generator_tamper(q, a_original, a_tampered) with any modulus
\* and any two generators
InitMitm ==
    /\ NoCracker
    /\ dh = <<>>
    /\ \E q \in 2..MaxQ, a_original \in 1..MaxQ, a_tampered \in 1..MaxQ :
          mitm = [q |-> q, a_original |-> a_original, a_tampered |-> a_tampered,
                  X_A |-> 0, X_B |-> 0, Y_A |-> 0, Y_B |-> 0,
                  s_alice |-> 0, s_bob |-> 0, candidates |-> <<>>,
                  recovered |-> FALSE, raised |-> NONE]
    /\ rsa = <<>>
    /\ birthday = <<>>
    /\ pc = "mitm"

NextMitm == MitmGeneratorTamper

SpecMitm == InitMitm /\ [][NextMitm]_vars

\* the largest prime rsa_keygen draws and the largest public exponent
MaxPrime == 11
MaxE == 7

\* Crypto.Util.number.getPrime: some prime (here of at most MaxPrime)
Primes == {n \in 2..MaxPrime : \A k \in 2..(n - 1) : n % k # 0}

\* extended_gcd(a, b): (g, x, y) with a*x + b*y = g
RECURSIVE ExtendedGcd(_, _)
ExtendedGcd(a, b) ==
    IF a = 0 THEN <<b, 0, 1>>
    ELSE LET r == ExtendedGcd(b % a, a)
         IN  <<r[1], r[3] - (b \div a) * r[2], r[2]>>

\* mod_inverse answering with the coefficient of phi
ModInverseOfPhi(e, phi) == ExtendedGcd(e % phi, phi)[3] % phi

\* mod_inverse(e, phi), which rsa_keygen calls when gcd(e, phi) = 1
ModInverse(e, phi) == ExtendedGcd(e % phi, phi)[2] % phi

\* rsa_keygen(bits, e): two distinct primes, then n, phi, the check that e
\* and phi are coprime, d and the sanity check on d
RsaKeygen ==
    /\ pc = "rsa"
    /\ \E p \in Primes, q \in Primes :
          /\ p # q
          /\ LET n == p * q
                 phi == (p - 1) * (q - 1)
                 g == ExtendedGcd(rsa.e, phi)[1]
                 d == ModInverse(rsa.e, phi)
             IN  IF g # 1
                 THEN /\ rsa' = [rsa EXCEPT !.p = p, !.q = q, !.n = n, !.phi = phi,
                                    !.g = g, !.raised = "AssertionError"]
                      /\ pc' = "crashed"
                 ELSE /\ rsa' = [rsa EXCEPT !.p = p, !.q = q, !.n = n, !.phi = phi,
                                    !.g = g, !.d = d,
                                    !.raised = IF (rsa.e * d) % phi = 1 THEN NONE
                                               ELSE "AssertionError"]
                      /\ pc' = IF (rsa.e * d) % phi = 1 THEN "rsa_keys" ELSE "crashed"
    /\ UNCHANGED <<crackerv, dh, mitm, birthday>>

\* rsa_encrypt(pub, m)
RsaEncrypt ==
    /\ pc = "rsa_keys"
    /\ \E m \in 0..rsa.n :
          IF 0 <= m /\ m < rsa.n
          THEN /\ rsa' = [rsa EXCEPT !.m = m, !.c = ModExp(m, rsa.e, rsa.n)]
               /\ pc' = "rsa_encrypted"
          ELSE /\ rsa' = [rsa EXCEPT !.m = m, !.raised = "AssertionError"]
               /\ pc' = "crashed"
    /\ UNCHANGED <<crackerv, dh, mitm, birthday>>

\* rsa_decrypt(pri, c)
RsaDecrypt ==
    /\ pc = "rsa_encrypted"
    /\ rsa' = [rsa EXCEPT !.m_dec = ModExp(rsa.c, rsa.d, rsa.n)]
    /\ pc' = "rsa_decrypted"
    /\ UNCHANGED <<crackerv, dh, mitm, birthday>>

\* a call rsa_keygen(bits, e) with any public exponent
InitRsa ==
    /\ NoCracker
    /\ dh = <<>>
    /\ mitm = <<>>
    /\ \E e \in 1..MaxE :
          rsa = [e |-> e, p |-> 0, q |-> 0, n |-> 0, phi |-> 0, g |-> 0, d |-> 0,
                 m |-> 0, c |-> 0, m_dec |-> 0, raised |-> NONE]
    /\ birthday = <<>>
    /\ pc = "rsa"

NextRsa ==
    \/ RsaKeygen
    \/ RsaEncrypt
    \/ RsaDecrypt

SpecRsa == InitRsa /\ [][NextRsa]_vars

\* the digest sizes find_collision_birthday is run with
DigestBits == {1, 2}

\* random.randbytes(8): some 8 bytes; digits among them, as in str(counter)
RandomBytes ==
    {<<"0", "0", "0", "0", "0", "0", "0", "0">>,
     <<"1", "0", "0", "0", "0", "0", "0", "0">>,
     <<"x", "0", "0", "0", "0", "0", "0", "1">>}

HexChar(d) ==
    CASE d < 10 -> DigitChar(d)
      [] d = 10 -> "a" [] d = 11 -> "b" [] d = 12 -> "c"
      [] d = 13 -> "d" [] d = 14 -> "e" [] d = 15 -> "f"

\* format(truncated, f'0{hex_len}x'): lower-case hex, zero-padded to hex_len
RECURSIVE Format(_, _)
Format(truncated, hex_len) ==
    IF truncated < 16 /\ hex_len <= 1 THEN <<HexChar(truncated)>>
    ELSE Format(truncated \div 16, hex_len - 1) \o <<HexChar(truncated % 16)>>

\* sha256_hash_truncated(data, bits) over all data: the top `bits` bits of a
\* digest, hash_int >> (256 - bits), formatted
TruncatedHashes(bits) ==
    {Format(truncated, (bits + 3) \div 4) : truncated \in 0..(2 ^ bits - 1)}

\* str(counter).encode() + random.randbytes(8)
Message(counter, random_bytes) == StrNat(counter) \o random_bytes

\* sha256_hash_truncated(msg, bits): a function of msg, so a message hashed
\* before (every one of them is a value of seen) hashes as before; any other
\* message may hash to any value
HashOf(msg, seen, bits) ==
    IF \E h \in DOMAIN seen : seen[h] = msg
    THEN {h \in DOMAIN seen : seen[h] = msg}
    ELSE TruncatedHashes(bits)

\* the loop leaving seen as it is
StoreNothing(seen, truncated_hash, msg) == seen

\* seen[truncated_hash] = msg
Store(seen, truncated_hash, msg) ==
    [h \in DOMAIN seen \cup {truncated_hash} |->
        IF h = truncated_hash THEN msg ELSE seen[h]]

\* find_collision_birthday: one iteration of its loop
FindCollisionStep ==
    /\ pc = "birthday"
    /\ \E random_bytes \in RandomBytes :
          LET msg == Message(birthday.counter, random_bytes)
          IN  \E truncated_hash \in HashOf(msg, birthday.seen, birthday.bits) :
                 IF truncated_hash \in DOMAIN birthday.seen
                 THEN /\ birthday' = [birthday EXCEPT
                            !.result = [m1 |-> birthday.seen[truncated_hash],
                                        m2 |-> msg,
                                        num_hashes |-> birthday.counter + 1,
                                        truncated_hash |-> truncated_hash]]
                      /\ pc' = "birthday_returned"
                 ELSE /\ birthday' = [birthday EXCEPT
                            !.seen = Store(birthday.seen, truncated_hash, msg),
                            !.counter = birthday.counter + 1,
                            !.raised = IF birthday.counter + 1 > 2 ^ (birthday.bits + 2)
                                       THEN "RuntimeError" ELSE NONE]
                      /\ pc' = IF birthday.counter + 1 > 2 ^ (birthday.bits + 2)
                               THEN "crashed" ELSE "birthday"
    /\ UNCHANGED <<crackerv, dh, mitm, rsa>>

\* task_1c_collision_analysis verifying the returned pair: it hashes both
\* messages again (m1 as when it was stored, m2 as in the last iteration) and
\* asserts h1 == h2 and m1 != m2
VerifyCollision ==
    /\ pc = "birthday_returned"
    /\ LET m1 == birthday.result.m1
           m2 == birthday.result.m2
           h2 == birthday.result.truncated_hash
       IN  \E h1 \in HashOf(m1, birthday.seen, birthday.bits) :
              /\ birthday' = [birthday EXCEPT !.h1 = h1, !.h2 = h2,
                                 !.raised = IF h1 = h2 /\ m1 # m2 THEN NONE
                                            ELSE "AssertionError"]
              /\ pc' = IF h1 = h2 /\ m1 # m2 THEN "birthday_verified" ELSE "crashed"
    /\ UNCHANGED <<crackerv, dh, mitm, rsa>>

\* a call find_collision_birthday(bits)
InitBirthday ==
    /\ NoCracker
    /\ dh = <<>>
    /\ mitm = <<>>
    /\ rsa = <<>>
    /\ \E bits \in DigestBits :
          birthday = [bits |-> bits, seen |-> <<>>, counter |-> 0, result |-> <<>>,
                      h1 |-> <<>>, h2 |-> <<>>, raised |-> NONE]
    /\ pc = "birthday"

NextBirthday ==
    \/ FindCollisionStep
    \/ VerifyCollision

\* the loop is sequential code: it keeps running until it returns or raises
SpecBirthday == InitBirthday /\ [][NextBirthday]_vars /\ WF_vars(NextBirthday)

\* ------------------------------------------------------------------ claims
\* the 1-based corpus positions whose word verifies against entry e
Matches(e) ==
    {p \in 1..Len(word_list) : Verify(word_list[p], entries[e].full_hash)}

LowestMatch(e) == CHOOSE p \in Matches(e) : \A q \in Matches(e) : p <= q

\* entry e has a CrackResult (it reached Cracked or Exhausted)
HasResult(e) == \E k \in DOMAIN results : results[k].entry = e

\* a verification was issued for entry e, or crack_user_parallel was called for it
Started(e) ==
    \/ \E w \in DOMAIN calls[e] : calls[e][w] > 0
    \/ HasResult(e)
    \/ pc = "par_map" /\ cur = e

InProgress(e) ==
    \/ Started(e) /\ ~HasResult(e)
    \/ pc = "par_map" /\ cur = e

\* C1: for every corpus length L and process count N, the chunks dispatched by
\* crack_user_parallel are at most N, each is the contiguous slice of the corpus
\* that starts at its start_index, and every index of [0, L) lies in exactly one.
C1_ChunksPartition ==
    pc = "par_map" =>
        /\ Len(tasks) <= parallel
        /\ \A k \in DOMAIN tasks :
              /\ tasks[k].start_index >= 0
              /\ tasks[k].start_index + Len(tasks[k].chunk) <= Len(word_list)
              /\ tasks[k].chunk = SubSeq(word_list, tasks[k].start_index + 1,
                                         tasks[k].start_index + Len(tasks[k].chunk))
        /\ \A p \in 1..Len(word_list) :
              Cardinality({k \in DOMAIN tasks :
                  /\ tasks[k].start_index < p
                  /\ p <= tasks[k].start_index + Len(tasks[k].chunk)}) = 1

\* C1 witness: chunks were dispatched and the last one absorbed a remainder.
C1_Witness ==
    /\ pc = "par_map"
    /\ Len(tasks) >= 2
    /\ Len(tasks[Len(tasks)].chunk) > Len(tasks[1].chunk)

\* C2: when several corpus words verify against the record, the parallel
\* cracker returns the one of lowest corpus index, in whatever order the
\* workers returned.
C2_LowestIndex ==
    \A k \in DOMAIN results :
        (parallel > 0 /\ Cardinality(Matches(results[k].entry)) >= 2) =>
            /\ results[k].password = word_list[LowestMatch(results[k].entry)]
            /\ results[k].attempts = LowestMatch(results[k].entry)

\* C2 witness: the first and the last word both verify, they lie in different
\* chunks, the last chunk's worker returned first, and the result is recorded.
C2_Witness ==
    /\ parallel >= 2
    /\ Len(word_list) >= 2
    /\ results # <<>>
    /\ {1, Len(word_list)} \subseteq Matches(results[1].entry)
    /\ pc = "par_entry"
    /\ first = Len(ArgsList(word_list, parallel))
    /\ first >= 2

\* C3: the CrackResult of a record whose password is in the corpus carries a
\* verifying word as password and that word's 1-based position in the whole
\* corpus as attempts, in the sequential and in the parallel orchestrator.
C3_AttemptsGlobal ==
    \A k \in DOMAIN results :
        Matches(results[k].entry) # {} =>
            /\ results[k].password # NONE
            /\ results[k].attempts \in Matches(results[k].entry)
            /\ word_list[results[k].attempts] = results[k].password

\* C3 witness: a parallel run over at least two chunks found the last corpus
\* word, which lies in a chunk that does not start at index 0.
C3_Witness ==
    /\ parallel >= 2
    /\ Len(word_list) >= 2
    /\ \E k \in DOMAIN results :
          /\ results[k].password = word_list[Len(word_list)]
          /\ results[k].attempts = Len(word_list)

\* C4: a CrackResult has password none exactly when no corpus word verifies
\* against its record; then every corpus word was tried for that record and
\* attempts is the corpus length.
C4_NotFoundIffNoMatch ==
    \A k \in DOMAIN results :
        /\ results[k].password = NONE <=> Matches(results[k].entry) = {}
        /\ results[k].password = NONE =>
              /\ results[k].attempts = Len(word_list)
              /\ \A w \in Range(word_list) : calls[results[k].entry][w] >= 1

\* C4 witness: a not-found result after a parallel scan of several chunks.
C4_Witness ==
    /\ parallel >= 2
    /\ Len(word_list) >= 2
    /\ \E k \in DOMAIN results : results[k].password = NONE

\* C5: processing is in ascending cost-factor order whatever the input order:
\* once a record of cost c is started, no record of smaller cost is in progress
\* or is started later, and results are appended in ascending cost order.
C5_AscendingCost ==
    /\ [](\A e, f \in DOMAIN entries :
            (entries[f].workfactor < entries[e].workfactor /\ Started(e)) =>
                ~InProgress(f))
    /\ [](\A j, k \in DOMAIN results :
            j < k => results[j].workfactor <= results[k].workfactor)
    /\ [][\A e, f \in DOMAIN entries :
            (entries[f].workfactor < entries[e].workfactor /\ Started(e) /\ ~Started(f))
                => ~Started(f)']_vars

\* C5 witness: the input lists the dearer record first, the cheaper one has its
\* result and the dearer one is being cracked.
C5_Witness ==
    /\ Len(entries) >= 2
    /\ entries[1].workfactor > entries[2].workfactor
    /\ HasResult(2)
    /\ InProgress(1)

\* C9: after a run the result list holds exactly one CrackResult per parsed
\* record, whatever the user ids and cost factors.
C9_OneResultPerRecord ==
    pc = "done" =>
        /\ Len(results) = Len(entries)
        /\ \A e \in DOMAIN entries :
              Cardinality({k \in DOMAIN results : results[k].entry = e}) = 1

\* C10 as stated: in both orchestrators at most one record is InProgress.
C10_OneInProgress ==
    Cardinality({e \in DOMAIN entries : InProgress(e)}) <= 1

\* C10 amended: the parallel orchestrator has at most one record InProgress;
\* the sequential one has only records of one cost-factor group InProgress.
C10_OneGroupInProgress ==
    /\ parallel > 0 => Cardinality({e \in DOMAIN entries : InProgress(e)}) <= 1
    /\ \A e, f \in DOMAIN entries :
          (InProgress(e) /\ InProgress(f)) =>
              entries[e].workfactor = entries[f].workfactor

\* C10 witness: the sequential orchestrator has two records of one group
\* InProgress, each with a verification issued.
C10_Witness ==
    /\ parallel = 0
    /\ Cardinality({e \in DOMAIN entries :
          InProgress(e) /\ \E w \in DOMAIN calls[e] : calls[e][w] > 0}) >= 2

\* the number of occurrences of character c in s
CountOf(s, c) == Cardinality({k \in DOMAIN s : s[k] = c})

\* the text after the line's ':' (for a line with one)
HashField(line) ==
    LET t == Strip(line)
    IN SubSeq(t, Positions(t, ":")[1] + 1, Len(t))

\* the line has not exactly one ':', or its hash field has fewer than 4 segments
Malformed(line) ==
    \/ CountOf(line, ":") # 1
    \/ CountOf(HashField(line), "$") < 3

\* the text between the second and the third '$' of the hash field
CostField(line) ==
    LET h == HashField(line)
    IN SubSeq(h, Positions(h, "$")[2] + 1, Positions(h, "$")[3] - 1)

\* a structurally sound line whose cost field is not a positive integer
BadCost(line) ==
    /\ ~Malformed(line)
    /\ ~(IntParses(CostField(line)) /\ IntValue(CostField(line)) > 0)

\* C6: a line whose cost field is not a positive integer is skipped: it yields
\* no record and does not abort parse_shadow_file.
C6_BadCostSkipped ==
    /\ pc = "crashed" => ~BadCost(lines[li])
    /\ \A k \in DOMAIN entries : ~BadCost(lines[source[k]])

\* C7: a line without exactly one ':' or with fewer than 4 '$'-segments yields
\* no record and no CrackResult and does not stop the parse: a ValueError is
\* never raised at such a line, and every sound line read so far has its record.
C7_MalformedSkipped ==
    /\ pc = "crashed" => ~Malformed(lines[li])
    /\ \A k \in DOMAIN entries : ~Malformed(lines[source[k]])
    /\ \A k \in DOMAIN results : ~Malformed(lines[source[results[k].entry]])
    /\ \A j \in 1..(li - 1) :
          (~Malformed(lines[j]) /\ ~BadCost(lines[j])) =>
              \E k \in DOMAIN entries : source[k] = j
    /\ pc \notin {"parse", "crashed"} => li = Len(lines) + 1

\* C7 witness: "bob-no-colon-hash" came first, the line after it was parsed and
\* the run ended with a CrackResult, none of them bob's.
C7_Witness ==
    /\ pc = "done"
    /\ Len(lines) >= 2
    /\ lines[1] = LineNoColon
    /\ Len(entries) = 1
    /\ Len(results) = 1

\* C8: every parsed record has a salt of exactly 22 characters (a line with a
\* shorter salt+hash field yields no record).
C8_SaltLength ==
    \A k \in DOMAIN entries : Len(entries[k].salt) = SaltLen

\* C11 as stated: in both orchestrators the CrackResults of one cost-factor
\* group are appended in the input order of their records.
C11_InputOrder ==
    \A j, k \in DOMAIN results :
        (j < k /\ results[j].workfactor = results[k].workfactor) =>
            results[j].entry < results[k].entry

\* C11 amended: the parallel orchestrator appends the results of a group in the
\* input order of their records; the sequential one appends a group's found
\* results in the order of the corpus positions at which the passwords were
\* found, and its not-found results after all its found ones.
C11_GroupOrder ==
    \A j, k \in DOMAIN results :
        (j < k /\ results[j].workfactor = results[k].workfactor) =>
            /\ parallel > 0 => results[j].entry < results[k].entry
            /\ parallel = 0 =>
                  /\ results[j].password = NONE => results[k].password = NONE
                  /\ (results[j].password # NONE /\ results[k].password # NONE) =>
                        results[j].attempts <= results[k].attempts

\* C11 witness: the sequential orchestrator has appended the result of the
\* second record of a group before that of the first, whose password lies
\* later in the corpus.
C11_Witness ==
    /\ parallel = 0
    /\ Len(results) >= 2
    /\ results[1].workfactor = results[2].workfactor
    /\ results[1].entry = 2
    /\ results[2].entry = 1
    /\ results[2].password # NONE
    /\ results[1].attempts < results[2].attempts

\* the progress file holds a line with the fields of result r
InLedger(r) ==
    \E k \in DOMAIN progress :
        /\ progress[k].user = r.user
        /\ progress[k].password = r.password
        /\ progress[k].attempts = r.attempts
        /\ progress[k].workfactor = r.workfactor

Extends(after, before) ==
    /\ Len(after) >= Len(before)
    /\ SubSeq(after, 1, Len(before)) = before

\* C13 as stated: no step of a run, start-up in either mode included, removes
\* or rewrites a ledger entry.
C13_AppendOnly == [][Extends(progress', progress)]_vars

\* C13 amended: after start-up no step removes or rewrites a ledger entry;
\* start-up leaves the ledger as it is in foreground mode and replaces it by
\* the header line alone in background mode.
C13_AppendOnlyAfterStartup ==
    /\ [][pc # "main" => Extends(progress', progress)]_vars
    /\ [][(pc = "main" /\ pc' = "load") =>
            progress' = IF background THEN <<HeaderLine>> ELSE progress]_vars

\* C13 witness: a background run whose start-up found an earlier entry has
\* appended an entry of its own after the header.
C13_Witness ==
    /\ background
    /\ Len(progress) >= 2
    /\ progress[1] = HeaderLine
    /\ EarlierLine \notin Range(progress)
    /\ \E k \in DOMAIN results : InLedger(results[k])

\* C14: when a record becomes Cracked its entry, with the CrackResult's
\* password, attempts and cost factor, is in the ledger before the next
\* verification is issued, and the only step between the CrackResult and its
\* entry is save_progress.
C14_SavedBeforeNextCall ==
    /\ [][calls' # calls =>
            \A k \in DOMAIN results : results[k].password # NONE => InLedger(results[k])]_vars
    /\ [](\A k \in DOMAIN results :
            (results[k].password # NONE /\ ~InLedger(results[k])) =>
                /\ k = Len(results)
                /\ pc \in {"seq_save", "par_save", "interrupted"})

\* C14 witness: a verification was issued after a record became Cracked.
C14_Witness ==
    /\ \E k \in DOMAIN results :
          /\ results[k].password # NONE
          /\ InLedger(results[k])
          /\ \E e \in DOMAIN entries :
                /\ e # results[k].entry
                /\ ~HasResult(e)
                /\ \E w \in DOMAIN calls[e] : calls[e][w] > 0
    /\ pc \in {"seq_check", "par_map"}

\* C17: when the word source cannot be loaded the run ends at the load: no
\* verification is issued, no CrackResult is created, and neither the progress
\* file nor the results file receives a result entry.
C17_NoCrackingWithoutCorpus ==
    ~source_ok =>
        /\ pc \in {"main", "load", "crashed", "interrupted"}
        /\ results = <<>>
        /\ csv = <<>>
        /\ tasks = <<>>
        /\ \A e \in DOMAIN calls : \A w \in DOMAIN calls[e] : calls[e][w] = 0
        /\ Range(progress) \subseteq {HeaderLine, EarlierLine}

\* C17 witness: a background run with a record to crack was aborted at the load.
C17_Witness ==
    /\ ~source_ok
    /\ pc = "crashed"
    /\ background
    /\ entries # <<>>
    /\ progress = <<HeaderLine>>

\* C15 as stated: a worker's abnormal termination is detected and answered: the
\* Distributor does not wait for that worker for ever, and once it has left the
\* pool the record has a result (after a retry, or an indeterminate one).
C15_FailureHandled ==
    /\ (pc = "par_map" /\ failed # {}) => ENABLED NextCrash
    /\ (pc # "par_map" /\ failed # {}) => HasResult(cur)

\* C15 amended: after a worker's abnormal termination the record gets no
\* CrackResult at all (pool.map does not return, or re-raises and the run
\* aborts), so it is never reported Exhausted with a chunk not fully scanned;
\* no chunk is scanned a second time.
C15_NoResultAfterFailure ==
    /\ failed # {} =>
          /\ pc \in {"par_map", "crashed"}
          /\ ~HasResult(cur)
    /\ \A k \in DOMAIN results :
          results[k].password = NONE =>
              \A w \in Range(word_list) : calls[results[k].entry][w] >= 1
    /\ \A e \in DOMAIN calls : \A w \in DOMAIN calls[e] : calls[e][w] <= 1

\* C15 witness: a worker was killed with a word of its chunk unscanned, every
\* other task has returned without a match, and pool.map is still waiting.
C15_Witness ==
    /\ pc = "par_map"
    /\ Len(tasks) >= 2
    /\ \E f \in failed :
          /\ f.how = "killed"
          /\ tasks[f.task].i < Len(tasks[f.task].chunk)
    /\ \A k \in DOMAIN tasks : k \notin FailedTasks => tasks[k].done
    /\ FirstResult(tasks) = <<>>
    /\ ~HasResult(cur)

\* the corpus positions at which checkpw raises for entry e
RaisesAt(e) ==
    {p \in 1..Len(word_list) : Raises(word_list[p], entries[e].full_hash)}

\* the result of entry e, once it has one
ResultOf(e) == results[CHOOSE k \in DOMAIN results : results[k].entry = e]

\* C16: an attempt on which the oracle raises counts as a non-match and the
\* scan goes on: a record is Cracked at the first word that verifies without
\* raising, a record whose every attempt raises ends Exhausted with password
\* none and attempts = the corpus length after every word was tried, and the
\* run goes on to its end with a result for every record.
C16_RaiseIsNonMatch ==
    /\ \A k \in DOMAIN results :
          LET e == results[k].entry
          IN /\ RaisesAt(e) = 1..Len(word_list) =>
                   /\ results[k].password = NONE
                   /\ results[k].attempts = Len(word_list)
                   /\ \A w \in Range(word_list) : calls[e][w] = 1
             /\ Matches(e) # {} =>
                   /\ results[k].attempts = LowestMatch(e)
                   /\ results[k].password = word_list[LowestMatch(e)]
                   /\ \A p \in RaisesAt(e) :
                         p < LowestMatch(e) => calls[e][word_list[p]] = 1
             /\ Matches(e) = {} =>
                   /\ results[k].password = NONE
                   /\ \A w \in Range(word_list) : calls[e][w] = 1
    /\ pc # "crashed"
    /\ pc = "done" => \A e \in DOMAIN entries : HasResult(e)

\* C16 witness: every attempt on the first record raised, it ended Exhausted,
\* and a later record was Cracked at a word that follows one on which the
\* oracle raised for it.
C16_Witness ==
    /\ pc = "done"
    /\ Len(entries) >= 2
    /\ Len(word_list) >= 2
    /\ RaisesAt(1) = 1..Len(word_list)
    /\ ResultOf(1).password = NONE
    /\ RaisesAt(2) = {1}
    /\ ResultOf(2).password = word_list[2]

\* C18 as stated: the corpus is cut into N contiguous chunks of ceil(len/N)
\* words, the last one taking what is left.
C18_CeilChunks ==
    pc = "par_map" =>
        LET L == Len(word_list)
            N == parallel
            size == (L + N - 1) \div N
        IN /\ Len(tasks) = N
           /\ \A k \in DOMAIN tasks :
                 /\ tasks[k].start_index = (k - 1) * size
                 /\ Len(tasks[k].chunk) = IF k < N THEN size ELSE L - (N - 1) * size

\* C18 amended: with len >= N the corpus is cut into N contiguous chunks, the
\* first N - 1 of floor(len/N) words and the last of the len - (N-1)*floor(len/N)
\* words that are left; with len < N it is cut into len chunks of one word.
C18_FloorChunks ==
    pc = "par_map" =>
        LET L == Len(word_list)
            N == parallel
            size == IF L < N THEN 1 ELSE L \div N
        IN /\ Len(tasks) = IF L < N THEN L ELSE N
           /\ \A k \in DOMAIN tasks :
                 /\ tasks[k].start_index = (k - 1) * size
                 /\ tasks[k].chunk = SubSeq(word_list, tasks[k].start_index + 1,
                                            tasks[k].start_index + Len(tasks[k].chunk))
                 /\ Len(tasks[k].chunk) = IF k < N THEN size ELSE L - (N - 1) * size

\* C18 witness: a corpus longer than N and not a multiple of it was cut, and
\* the last chunk is longer than the others.
C18_Witness ==
    /\ pc = "par_map"
    /\ parallel >= 2
    /\ Len(word_list) > parallel
    /\ Len(word_list) % parallel # 0
    /\ Len(tasks) = parallel
    /\ Len(tasks[parallel].chunk) = Len(tasks[1].chunk) + (Len(word_list) % parallel)

\* C19: the corpus get_nltk_words returns is strictly ascending in Python's
\* string order, hence duplicate-free; its words are exactly the lower-cased
\* source words whose length lies in [min_length, max_length]; and building it
\* again from the same source and filter returns the same sequence.
C19_CorpusSortedUnique ==
    /\ [](pc = "loaded" =>
            /\ \A j, k \in DOMAIN word_list :
                  j < k => LexLess(word_list[j], word_list[k])
            /\ Range(word_list) =
                  {Lower(nltk_words[k]) : k \in
                      {j \in DOMAIN nltk_words :
                          min_length <= Len(nltk_words[j]) /\ Len(nltk_words[j]) <= max_length}})
    /\ [][pc = "loaded" => word_list' = word_list]_vars

\* C19 witness: the source held "b" and then "Ab", both within the filter; the
\* corpus is "ab", "b".
C19_Witness ==
    /\ pc = "loaded"
    /\ nltk_words = << <<"b">>, <<"A", "b">> >>
    /\ word_list = << <<"a", "b">>, <<"b">> >>

\* the text after the third '$' of the hash field, up to the fourth if any
FourthSegment(line) ==
    LET h == HashField(line)
        at == Positions(h, "$")
    IN SubSeq(h, at[3] + 1, IF Len(at) >= 4 THEN at[4] - 1 ELSE Len(h))

\* a line of the shadow file's form: one ':', a hash field "$alg$cost$salt+hash"
\* with a positive integer cost and at least 22 characters after the third '$'
ValidLine(line) ==
    /\ ~Malformed(line)
    /\ ~BadCost(line)
    /\ CountOf(HashField(line), "$") = 3
    /\ Head(HashField(line)) = "$"
    /\ Len(FourthSegment(line)) >= SaltLen

\* C20: for a valid line the record's salt is the first 22 characters of the
\* fourth '$' segment, its bcrypt_salt is, character for character, the hash
\* field up to the end of the salt, with the cost text as written in the line
\* (leading zero included), and its work factor is that text's value.
C20_RoundTrip ==
    \A k \in DOMAIN entries :
        LET line == lines[source[k]]
            e == entries[k]
        IN ValidLine(line) =>
              /\ e.salt = SubSeq(FourthSegment(line), 1, SaltLen)
              /\ e.bcrypt_salt = SubSeq(HashField(line), 1, Len(e.bcrypt_salt))
              /\ Len(e.bcrypt_salt) =
                    Positions(HashField(line), "$")[3] + SaltLen
              /\ Split(e.bcrypt_salt, "$")[3] = CostField(line)
              /\ Split(e.bcrypt_salt, "$")[4] = e.salt
              /\ e.workfactor = IntValue(CostField(line))
              /\ e.full_hash = e.bcrypt_salt \o e.hash

\* C20 witness: the line of Bilbo, whose cost is written "08", was parsed: the
\* record's work factor is 8 and its bcrypt_salt holds "08".
C20_Witness ==
    /\ entries # <<>>
    /\ lines[source[1]] = LineBilbo
    /\ ValidLine(LineBilbo)
    /\ entries[1].workfactor = 8
    /\ Split(entries[1].bcrypt_salt, "$")[3] = <<"0", "8">>
    /\ Len(entries[1].salt) = SaltLen

\* C21 as stated: every CrackResult has 1 <= attempts <= the corpus length,
\* the empty corpus included.
C21_AttemptsPositive ==
    \A k \in DOMAIN results :
        /\ results[k].attempts >= 1
        /\ results[k].attempts <= Len(word_list)

\* C21 amended: every CrackResult has 0 <= attempts <= the corpus length;
\* attempts is at least 1 for a found password and for every result over a
\* non-empty corpus, and it is 0 exactly for the not-found results of an empty
\* corpus.
C21_AttemptsRange ==
    \A k \in DOMAIN results :
        /\ results[k].attempts >= 0
        /\ results[k].attempts <= Len(word_list)
        /\ results[k].password # NONE => results[k].attempts >= 1
        /\ results[k].attempts = 0 <=> word_list = <<>>

\* C21 witness: a run over an empty corpus has ended, with a not-found result
\* of attempts 0 for each of its two records.
C21_Witness ==
    /\ word_list = <<>>
    /\ pc = "done"
    /\ Len(results) >= 2
    /\ \A k \in DOMAIN results : results[k].attempts = 0 /\ results[k].password = NONE

\* C22: while a worker is still scanning a chunk of a record, the coordinator
\* is inside pool.map for that record, the record has no result and no other
\* record has been started after it; and the coordinator leaves pool.map, with
\* the record's result, only from a state in which every task has returned.
C22_MapWaitsForAll ==
    /\ []((\E k \in DOMAIN tasks : ~tasks[k].done) =>
            /\ pc = "par_map"
            /\ ~HasResult(cur)
            /\ \A k \in DOMAIN tasks :
                  tasks[k].chunk = SubSeq(word_list, tasks[k].start_index + 1,
                                          tasks[k].start_index + Len(tasks[k].chunk)))
    /\ [][(pc = "par_map" /\ pc' # "par_map") =>
            /\ \A k \in DOMAIN tasks : tasks[k].done
            /\ Len(results') = Len(results) + 1
            /\ results'[Len(results')].entry = cur]_vars
    /\ [][(pc = "par_map" /\ pc' = "par_map") => (cur' = cur /\ results' = results)]_vars

\* C22 witness: one worker has returned a match while another is still in the
\* middle of its chunk; the coordinator is still waiting.
C22_Witness ==
    /\ pc = "par_map"
    /\ results = <<>>
    /\ \E j, k \in DOMAIN tasks :
          /\ tasks[j].done
          /\ tasks[j].result # <<>>
          /\ ~tasks[k].done
          /\ tasks[k].i >= 1

\* The stretches of corpus positions that one scan covers: the chunks of
\* crack_user_parallel, or the whole corpus in the sequential orchestrator.
Stretches ==
    IF parallel = 0
    THEN {1..Len(word_list)}
    ELSE {(a.start_index + 1)..(a.start_index + Len(a.chunk)) :
            a \in Range(ArgsList(word_list, parallel))}

\* C24: for one record no corpus word is passed to the oracle more than once;
\* inside a chunk (the whole corpus in the sequential orchestrator) the words
\* are verified in ascending order, and none after the first that verifies.
C24_NoCallAfterMatch ==
    \A e \in DOMAIN entries :
        /\ \A w \in DOMAIN calls[e] : calls[e][w] <= 1
        /\ \A S \in Stretches : \A p, q \in S :
              p < q =>
                 /\ calls[e][word_list[q]] >= 1 => calls[e][word_list[p]] >= 1
                 /\ p \in Matches(e) => calls[e][word_list[q]] = 0

\* C24 witness: in a finished sequential run a record was Cracked at the first
\* word, the word after it was never verified for it, and it was verified for
\* another record of the group.
C24_Witness ==
    /\ parallel = 0
    /\ pc = "done"
    /\ Len(word_list) >= 2
    /\ \E e, f \in DOMAIN entries :
          /\ 1 \in Matches(e)
          /\ HasResult(e)
          /\ calls[e][word_list[1]] = 1
          /\ calls[e][word_list[2]] = 0
          /\ entries[e].workfactor = entries[f].workfactor
          /\ calls[f][word_list[2]] = 1

\* what a run owes record e whichever the orchestrator: the first corpus word
\* that verifies and its 1-based position, or none and the corpus length
Expected(e) ==
    IF Matches(e) = {}
    THEN [password |-> NONE, attempts |-> Len(word_list)]
    ELSE [password |-> word_list[LowestMatch(e)], attempts |-> LowestMatch(e)]

DistinctUsers ==
    \A e, f \in DOMAIN entries : e # f => entries[e].user # entries[f].user

\* C25: for records with pairwise distinct user ids, a finished run of either
\* orchestrator, with any number of processes, holds for every record exactly
\* one result, and its password, attempts and cost factor are those that the
\* records and the corpus alone determine; so the two orchestrators agree.
C25_OrchestratorsAgree ==
    (DistinctUsers /\ pc = "done") =>
        \A e \in DOMAIN entries :
            /\ Cardinality({k \in DOMAIN results : results[k].entry = e}) = 1
            /\ \A k \in DOMAIN results :
                  results[k].entry = e =>
                     /\ results[k].user = entries[e].user
                     /\ results[k].password = Expected(e).password
                     /\ results[k].attempts = Expected(e).attempts
                     /\ results[k].workfactor = entries[e].workfactor

\* C25 witness: a finished parallel run over two chunks and two records of one
\* cost factor and distinct user ids; the first record's password is the
\* second corpus word, the second record's is not in the corpus.
C25_Witness ==
    /\ pc = "done"
    /\ parallel = 2
    /\ Len(word_list) = 2
    /\ Len(entries) = 2
    /\ DistinctUsers
    /\ entries[1].workfactor = entries[2].workfactor
    /\ Matches(1) = {2}
    /\ Matches(2) = {}
    /\ Len(results) = 2

\* the run comes to its end
Terminates == <>(pc = "done")

\* C23: when no worker fails, every run over a finite batch and a finite
\* corpus eventually finishes with a CrackResult (Cracked or Exhausted) for
\* every parsed record.
C23_AllRecordsFinish ==
    <>(pc = "done" /\ \A e \in DOMAIN entries : HasResult(e))

\* diffie_hellman_exchange has drawn both private keys
Exchanged == dh # <<>> /\ pc # "dh" /\ dh.raised # "ValueError"

\* C26: in diffie_hellman_exchange, for every modulus q, generator a and
\* private keys X_A, X_B, Alice's secret Y_B^X_A mod q equals Bob's secret
\* Y_A^X_B mod q (both are a^(X_A * X_B) mod q), so the assertion that the
\* shared secrets match never fails.
C26_SecretsMatch ==
    Exchanged =>
       /\ dh.Y_A = ModExp(dh.a, dh.X_A, dh.q)
       /\ dh.Y_B = ModExp(dh.a, dh.X_B, dh.q)
       /\ dh.s_alice = ModExp(dh.a, dh.X_A * dh.X_B, dh.q)
       /\ dh.s_bob = dh.s_alice
       /\ dh.raised = NONE
       /\ pc = "dh_done"

\* C26 witness: an exchange with different private keys, public values that
\* differ and a shared secret other than 0 and 1.
C26_Witness ==
    /\ Exchanged
    /\ pc = "dh_done"
    /\ dh.X_A # dh.X_B
    /\ dh.Y_A # dh.Y_B
    /\ dh.s_alice > 1
    /\ dh.s_alice = dh.s_bob

\* C27: every private key diffie_hellman_exchange draws lies in
\* {2, ..., q-2}, as the comments of the function state.
C27_PrivateKeysAsCommented ==
    Exchanged =>
       /\ dh.X_A \in 2..(dh.q - 2)
       /\ dh.X_B \in 2..(dh.q - 2)

\* what secrets.randbelow(q - 2) + 2 does draw from: {2, ..., q-1}
PrivateKeysDrawn ==
    Exchanged =>
       /\ dh.X_A \in 2..(dh.q - 1)
       /\ dh.X_B \in 2..(dh.q - 1)

IsPrime(n) == n >= 2 /\ \A k \in 2..(n - 1) : n % k # 0

\* mitm_generator_tamper has computed both shared secrets
Tampered == mitm # <<>> /\ pc # "mitm" /\ mitm.raised # "ValueError"

\* C28: in mitm_generator_tamper, for every prime q and every pair of private
\* keys in the drawn range, the shared secret Alice and Bob compute lies in
\* Mallory's candidate set, which is {1} when the generator is replaced by 1,
\* {0} when replaced by q and {1, q-1} when replaced by q-1.
C28_SecretAmongCandidates ==
    (Tampered /\ IsPrime(mitm.q) /\ mitm.a_tampered \in {1, mitm.q, mitm.q - 1}) =>
       /\ mitm.s_alice = mitm.s_bob
       /\ mitm.s_alice \in Range(mitm.candidates)
       /\ mitm.a_tampered = 1 => Range(mitm.candidates) = {1}
       /\ mitm.a_tampered = mitm.q => Range(mitm.candidates) = {0}
       /\ (mitm.a_tampered = mitm.q - 1 /\ mitm.q > 2) =>
             Range(mitm.candidates) = {1, mitm.q - 1}

\* C28 witness: the generator q-1 of a prime q > 3 and odd private keys, one
\* of them q-2: the shared secret is q-1, Mallory's second candidate.
C28_Witness ==
    /\ Tampered
    /\ IsPrime(mitm.q)
    /\ mitm.q > 3
    /\ mitm.a_tampered = mitm.q - 1
    /\ mitm.X_A = mitm.q - 2
    /\ mitm.s_alice = mitm.q - 1
    /\ mitm.candidates = <<1, mitm.q - 1>>
    /\ pc = "mitm_done"

\* rsa_keygen has found e and phi coprime and has called mod_inverse
KeysBuilt == rsa # <<>> /\ rsa.phi > 0 /\ rsa.g = 1

\* C29: for every key pair built as in rsa_keygen (distinct primes p and q,
\* n = p*q, phi = (p-1)(q-1), gcd(e, phi) = 1, d = mod_inverse(e, phi)),
\* mod_inverse returns d in [0, phi) with (e*d) mod phi = 1, and for every
\* message m with 0 <= m < n, rsa_decrypt(pri, rsa_encrypt(pub, m)) = m.
C29_RsaRoundTrip ==
    KeysBuilt =>
       /\ rsa.d \in 0..(rsa.phi - 1)
       /\ (rsa.e * rsa.d) % rsa.phi = 1
       /\ pc = "crashed" => rsa.m = rsa.n
       /\ pc = "rsa_encrypted" => rsa.m \in 0..(rsa.n - 1)
       /\ pc = "rsa_decrypted" => rsa.m_dec = rsa.m

\* C29 witness: a decrypted message that is neither 0 nor 1 and shares a prime
\* factor with n, under a public exponent above phi and a private exponent
\* other than 1.
C29_Witness ==
    /\ KeysBuilt
    /\ pc = "rsa_decrypted"
    /\ rsa.e > rsa.phi
    /\ rsa.d > 1
    /\ rsa.m > 1
    /\ rsa.m % rsa.p = 0
    /\ rsa.c # rsa.m
    /\ rsa.m_dec = rsa.m

\* the loop counters the injectivity of Message is checked for
MaxCounter == 12

\* find_collision_birthday has returned
Returned == birthday # <<>> /\ birthday.result # <<>>

\* messages built for different values of the counter differ
MessagesDiffer ==
    \A c1 \in 0..MaxCounter, c2 \in 0..MaxCounter :
       \A r1 \in RandomBytes, r2 \in RandomBytes :
          c1 # c2 => Message(c1, r1) # Message(c2, r2)

\* the loop has hashed at most 2^bits messages without a collision, has not
\* raised, and what it returns is a pair of different messages of one
\* truncated hash, found with at most 2^bits + 1 hashes
WithinPigeonhole ==
    birthday # <<>> =>
       /\ birthday.counter <= 2 ^ birthday.bits
       /\ birthday.raised = NONE
       /\ pc # "crashed"
       /\ Returned =>
             /\ birthday.result.m1 # birthday.result.m2
             /\ birthday.result.num_hashes <= 2 ^ birthday.bits + 1
             /\ birthday.result.num_hashes = birthday.counter + 1
             /\ birthday.result.truncated_hash \in DOMAIN birthday.seen
             /\ birthday.seen[birthday.result.truncated_hash] = birthday.result.m1
       /\ pc = "birthday_verified" => birthday.h1 = birthday.h2

\* C30: find_collision_birthday(bits) always terminates by returning two
\* different messages with the same truncated hash after at most 2^bits + 1
\* hashes; its safety limit (counter > 2^(bits+2), RuntimeError) is never
\* reached, whatever values the hash function and the random bytes take.
C30_CollisionWithinBound ==
    /\ [](WithinPigeonhole /\ MessagesDiffer)
    /\ <>Returned

\* C30 witness: two bits of digest and the worst case, four messages of four
\* different truncated hashes before the fifth collides; the caller has
\* verified the pair.
C30_Witness ==
    /\ Returned
    /\ birthday.bits = 2
    /\ birthday.result.num_hashes = 5
    /\ birthday.result.m1 # birthday.result.m2
    /\ pc = "birthday_verified"

====
